---- MODULE Spec2Model ----
(***************************************************************************)
(* bevy_queue_delete: deferred deletion of entities.                       *)
(*   src/src/lib.rs        QueueDelete, queue_delete_system, TimerDelete,  *)
(*                         FrameCountDelete and their systems              *)
(*   src/src/recursive.rs  the hierarchy cascade                           *)
(*   src/src/ref_delete.rs RefEntityServer, RefEntityHandle, the drain     *)
(*                         (mark_unused_entities) and the free-mark pass   *)
(*                         (free_unused_entities)                          *)
(*                                                                         *)
(* A tick is the Update stage (the plugin's systems, in any order, each    *)
(* once; their Commands are applied when the stage ends) followed by the   *)
(* Last stage (queue_delete_system; its despawn Commands are applied when  *)
(* the stage ends).  Handles are created and dropped at any moment.        *)
(***************************************************************************)
EXTENDS Integers, Sequences, FiniteSets, TLC

\* ------------------------------------------------------------------ bounds
NumEntities == 4      \* entity ids the registry has issued: 1..NumEntities
MaxHandles == 2       \* handles user code holds at a time
MaxChannel == 3       \* messages in the channel at a time
MaxCommands == 1      \* commands user code queues in a stage
MaxTicks == 3         \* ticks a frame counter is followed for
MaxDelta == 2         \* Time::delta() of a tick, in time units
MaxDuration == 2      \* TimerDelete durations, in time units
MaxFrames == 2        \* FrameCountDelete counts

VARIABLES
    world,              \* the registry: alive, tagged (QueueDelete), children
    stage,              \* "Update" | "Last"
    ran,                \* the systems that have run in this tick
    commands,           \* the Commands queued in the current stage
    panicked,           \* a system or command panicked: the app is down
    handles,            \* the RefEntityHandles user code holds: handle -> how many
    channel,            \* RefChangeChannel: messages sent and not yet drained
    ref_counts,         \* RefEntityServer.ref_counts: HashMap<Entity, usize>
    mark_unused_assets, \* RefEntityServer.mark_unused_assets: Vec<Entity>
    balance,            \* history: per id, Increments sent minus Decrements sent
    cascade,            \* history: the last hierarchy cascade that completed
    delta,              \* Time::delta() of this tick
    driverLog,          \* history: per entity, what its deletion driver has seen
    guards              \* the lock guards the two reference systems hold

vars == <<world, stage, ran, commands, panicked, handles, channel, ref_counts,
          mark_unused_assets, balance, cascade, delta, driverLog, guards>>

\* ---------------------------------------------------------------- entities
Entity == 1..NumEntities
\* RefEntityHandle::default() targets Entity::from_raw(u32::MAX): an id the
\* registry never issued.
DefaultEntity == NumEntities + 1
\* the entity the handles of the reference-count scenarios target
Targets == {1}
RefIds == Targets \cup {DefaultEntity}

Range(s) == {s[i] : i \in 1..Len(s)}

\* ----------------------------------------------------------- RefEntityHandle
\* A handle is its target and its type; user code holds a multiset of them
WeakHandle(e) == [kind |-> "Weak", entity |-> e]
StrongHandle(e) == [kind |-> "Strong", entity |-> e]
HandleValues == {WeakHandle(e) : e \in RefIds} \cup {StrongHandle(e) : e \in RefIds}
is_weak(hv) == hv.kind = "Weak"
is_strong(hv) == hv.kind = "Strong"

RECURSIVE SumOver(_, _)
SumOver(f, S) ==
    IF S = {} THEN 0
    ELSE LET x == CHOOSE y \in S : TRUE IN f[x] + SumOver(f, S \ {x})
\* the handles user code holds
Held == SumOver(handles, HandleValues)
Holds(hv) == handles[hv] > 0
\* the Strong handles that target e
StrongCount(e) == handles[StrongHandle(e)]

Increment(e) == [kind |-> "Increment", id |-> e]
Decrement(e) == [kind |-> "Decrement", id |-> e]

\* The receiver of the channel lives in RefEntityServer: it is there until the
\* App and its resources are dropped
Connected == stage # "Exit"

\* sender.send(msg) on the unbounded channel, receiver alive (the model holds
\* at most MaxChannel messages in flight)
Send(msg) ==
    /\ Len(channel) < MaxChannel
    /\ channel' = Append(channel, msg)
    /\ balance' = [balance EXCEPT ![msg.id] =
                      IF msg.kind = "Increment" THEN @ + 1 ELSE @ - 1]

\* what the reference-count subsystem never touches
SideVars == <<cascade, delta, driverLog, guards>>
RefSystemVars == <<world, stage, ran, commands, panicked, ref_counts, mark_unused_assets,
                   SideVars>>

\* RefEntityHandle::strong: one Increment, then the Strong handle; hs is the
\* multiset the new handle joins
strong_NoIncrement(hs, e) ==
    /\ handles' = [hs EXCEPT ![StrongHandle(e)] = @ + 1]
    /\ UNCHANGED <<channel, balance>>
strong(hs, e) ==
    /\ Send(Increment(e))
    /\ handles' = [hs EXCEPT ![StrongHandle(e)] = @ + 1]

\* RefEntityHandle::weak: no message
weak_SendsIncrement(hs, e) ==
    /\ Send(Increment(e))
    /\ handles' = [hs EXCEPT ![WeakHandle(e)] = @ + 1]
weak(hs, e) ==
    /\ handles' = [hs EXCEPT ![WeakHandle(e)] = @ + 1]
    /\ UNCHANGED <<channel, balance>>

\* RefEntityServer::get_handle(id)
get_handle(e) ==
    /\ Connected
    /\ Held < MaxHandles
    /\ strong(handles, e)
    /\ UNCHANGED RefSystemVars

\* RefEntityHandle::weak(entity) called by user code
new_weak(e) ==
    /\ Held < MaxHandles
    /\ weak(handles, e)
    /\ UNCHANGED RefSystemVars

\* RefEntityHandle::default()
Default ==
    /\ Held < MaxHandles
    /\ weak(handles, DefaultEntity)
    /\ UNCHANGED RefSystemVars

\* as_weak(&self) -> RefEntityHandle
as_weak(hv) ==
    /\ Holds(hv)
    /\ Held < MaxHandles
    /\ handles' = [handles EXCEPT ![WeakHandle(hv.entity)] = @ + 1]
    /\ UNCHANGED <<channel, balance>>
    /\ UNCHANGED RefSystemVars

\* clone_weak(&self) -> Self
clone_weak(hv) ==
    /\ Holds(hv)
    /\ Held < MaxHandles
    /\ weak(handles, hv.entity)
    /\ UNCHANGED RefSystemVars

\* Clone for RefEntityHandle
clone(hv) ==
    /\ Holds(hv)
    /\ Held < MaxHandles
    /\ IF is_strong(hv)
       THEN strong(handles, hv.entity)
       ELSE weak(handles, hv.entity)
    /\ UNCHANGED RefSystemVars

\* make_strong(&mut self, server)
make_strong_Always(hv) ==
    /\ Holds(hv)
    /\ Send(Increment(hv.entity))
    /\ handles' = [[handles EXCEPT ![hv] = @ - 1]
                      EXCEPT ![StrongHandle(hv.entity)] = @ + 1]
    /\ UNCHANGED RefSystemVars
make_strong(hv) ==
    /\ Connected
    /\ Holds(hv)
    /\ IF is_strong(hv)
       THEN UNCHANGED <<handles, channel, balance>>
       ELSE /\ Send(Increment(hv.entity))
            /\ handles' = [[handles EXCEPT ![hv] = @ - 1]
                              EXCEPT ![StrongHandle(hv.entity)] = @ + 1]
    /\ UNCHANGED RefSystemVars

\* Drop for RefEntityHandle: `let _ = sender.send(..)`, a send that fails
\* because the receiver is gone is ignored
drop_NoDecrement(hv) ==
    /\ Holds(hv)
    /\ UNCHANGED <<channel, balance>>
    /\ handles' = [handles EXCEPT ![hv] = @ - 1]
    /\ UNCHANGED RefSystemVars
drop(hv) ==
    /\ Holds(hv)
    /\ IF is_strong(hv) /\ Connected
       THEN Send(Decrement(hv.entity))
       ELSE UNCHANGED <<channel, balance>>
    /\ handles' = [handles EXCEPT ![hv] = @ - 1]
    /\ UNCHANGED RefSystemVars

\* ------------------------------------------------------------------- World
\* HashMap / component storage: a function on the keys present
Get(f, k) == IF k \in DOMAIN f THEN f[k] ELSE -1
Insert(f, k, v) == [x \in DOMAIN f \cup {k} |-> IF x = k THEN v ELSE f[x]]
Remove(f, k) == [x \in DOMAIN f \ {k} |-> f[x]]

\* Commands queued by systems and user code, applied when the stage ends
Cmd(op, e) == [op |-> op, e |-> e, arg |-> 0]
CmdArg(op, e, arg) == [op |-> op, e |-> e, arg |-> arg]
Result(w, p) == [world |-> w, panicked |-> p]

\* world.entity_mut(e).insert(QueueDelete) on an entity of the registry
InsertTag(w, e) == [w EXCEPT !.tagged = @ \cup {e}]

\* World::despawn(e): the entity and its components go; the Children lists of
\* other entities are not touched
DespawnEntity_WithChildren(w, e) ==
    [w EXCEPT !.alive = @ \ ({e} \cup Range(w.children[e])),
              !.tagged = @ \ ({e} \cup Range(w.children[e])),
              !.children = [@ EXCEPT ![e] = <<>>],
              !.timers = Remove(@, e),
              !.frames = Remove(@, e)]
DespawnEntity(w, e) ==
    [w EXCEPT !.alive = @ \ {e},
              !.tagged = @ \ {e},
              !.children = [@ EXCEPT ![e] = <<>>],
              !.timers = Remove(@, e),
              !.frames = Remove(@, e)]

\* world.get::<Children>(entity).cloned()
ChildrenOf(w, e) == IF e \in w.alive THEN w.children[e] ELSE <<>>

\* recursive.rs: the two cascades. world.entity_mut panics on an entity that
\* is gone; a panic ends the walk
RECURSIVE queue_despawn_with_children_recursive(_, _)
RECURSIVE queue_despawn_with_children_recursive_inner(_, _)
RECURSIVE ForEachChildRecursive(_, _)
RECURSIVE ForEachChildInner(_, _)

\* for e in children { queue_despawn_with_children_recursive(world, *e) }
ForEachChildRecursive(r, cs) ==
    IF cs = <<>> \/ r.panicked THEN r
    ELSE ForEachChildRecursive(queue_despawn_with_children_recursive(r.world, Head(cs)),
                               Tail(cs))
\* for e in children { queue_despawn_with_children_recursive_inner(world, *e) }
ForEachChildInner(r, cs) ==
    IF cs = <<>> \/ r.panicked THEN r
    ELSE ForEachChildInner(queue_despawn_with_children_recursive_inner(r.world, Head(cs)),
                           Tail(cs))

\* recursive.rs queue_despawn_with_children_recursive_inner: the children
\* first, each with its own subtree, then the entity
inner_DirectChildrenOnly(w, e) ==
    IF e \in w.alive /\ Range(ChildrenOf(w, e)) \subseteq w.alive
    THEN Result([w EXCEPT !.tagged = @ \cup Range(ChildrenOf(w, e)) \cup {e}], FALSE)
    ELSE Result(w, TRUE)
queue_despawn_with_children_recursive_inner(w, e) ==
    LET r == ForEachChildRecursive(Result(w, FALSE), ChildrenOf(w, e))
    IN IF r.panicked THEN r
       ELSE IF e \in r.world.alive THEN Result(InsertTag(r.world, e), FALSE)
       ELSE Result(r.world, TRUE)

\* recursive.rs queue_despawn_with_children_recursive
queue_despawn_with_children_recursive(w, e) ==
    queue_despawn_with_children_recursive_inner(w, e)

\* recursive.rs queue_despawn_children: the children, each with its own
\* subtree, then the entity as well
queue_despawn_children(w, e) ==
    LET r == ForEachChildInner(Result(w, FALSE), ChildrenOf(w, e))
    IN IF r.panicked THEN r
       ELSE IF e \in r.world.alive THEN Result(InsertTag(r.world, e), FALSE)
       ELSE Result(r.world, TRUE)

\* bevy Timer, as TimerDelete uses it: Timer::default() is a non-repeating
\* timer of duration 0 that has not finished
DefaultTimer == [duration |-> 0, elapsed |-> 0, finished |-> FALSE, times_finished |-> 0]
\* TimerDelete::new(duration); added: timer_start_fn has not seen it yet
NewTimerDelete(d) == [duration |-> d, timer |-> DefaultTimer, added |-> TRUE]

\* One command applied to the world: [world, panicked]
ApplyCommand(w, c) ==
    CASE c.op = "Insert" ->
            \* Insert<QueueDelete>::write panics on an entity that is gone
            IF c.e \in w.alive THEN Result(InsertTag(w, c.e), FALSE)
            ELSE Result(w, TRUE)
      [] c.op = "Despawn" ->
            \* Despawn::write only warns on an entity that is gone
            Result(IF c.e \in w.alive THEN DespawnEntity(w, c.e) ELSE w, FALSE)
      [] c.op = "QueueDespawnRecursive" ->
            queue_despawn_with_children_recursive(w, c.e)
      [] c.op = "QueueDespawnChildrenRecursive" ->
            queue_despawn_children(w, c.e)
      [] c.op = "InsertTimerDelete" ->
            IF c.e \in w.alive
            THEN Result([w EXCEPT !.timers = Insert(@, c.e, NewTimerDelete(c.arg))], FALSE)
            ELSE Result(w, TRUE)
      [] c.op = "InsertFrameCountDelete" ->
            IF c.e \in w.alive
            THEN Result([w EXCEPT !.frames = Insert(@, c.e, c.arg)], FALSE)
            ELSE Result(w, TRUE)

\* The stage's command queue applied in order, stopping at a panic
RECURSIVE ApplyCommands(_, _)
ApplyCommands(w, cs) ==
    IF cs = <<>> THEN Result(w, FALSE)
    ELSE LET r == ApplyCommand(w, Head(cs))
         IN IF r.panicked THEN r ELSE ApplyCommands(r.world, Tail(cs))

\* ----------------------------------------------------------------- history
\* the entities reachable from e over the Children lists, e included
RECURSIVE Reach(_, _)
Reach(w, S) ==
    LET next == S \cup {c \in Entity : \E q \in S : c \in Range(ChildrenOf(w, q))}
    IN IF next = S THEN S ELSE Reach(w, next)
Subtree(w, e) == Reach(w, {e})

NoCascade == [fn |-> "none", root |-> 0, subtree |-> {}, swept |-> FALSE]
CascadeOf(fn, w, e) == [fn |-> fn, root |-> e, subtree |-> Subtree(w, e), swept |-> FALSE]
CascadeFn(op) == IF op = "QueueDespawnRecursive" THEN "recursive" ELSE "descendants"
\* the last cascade command of the queue, if any, else the cascade on record
RECURSIVE LastCascade(_, _, _)
LastCascade(w, cs, c) ==
    IF cs = <<>> THEN c
    ELSE LastCascade(w, Tail(cs),
            IF Head(cs).op \in {"QueueDespawnRecursive", "QueueDespawnChildrenRecursive"}
            THEN CascadeOf(CascadeFn(Head(cs).op), w, Head(cs).e) ELSE c)

\* -------------------------------------------------------------- scheduling
HandleVars == <<handles, channel, balance>>
RefTableVars == <<ref_counts, mark_unused_assets>>
RefVars == <<HandleVars, RefTableVars>>

\* A system of the Update stage may start: each runs once per tick
MayRun(system) ==
    /\ ~panicked
    /\ stage = "Update"
    /\ system \notin ran

\* The Update stage ends when all its systems have run: apply_buffers
EndUpdate_KeepCommands(systems) ==
    /\ ~panicked
    /\ stage = "Update"
    /\ systems \subseteq ran
    /\ stage' = "Last"
    /\ UNCHANGED <<world, commands, panicked, ran, RefVars, SideVars>>
EndUpdate(systems) ==
    /\ ~panicked
    /\ stage = "Update"
    /\ systems \subseteq ran
    /\ LET r == ApplyCommands(world, commands)
       IN /\ world' = r.world
          /\ panicked' = r.panicked
          /\ cascade' = IF r.panicked THEN cascade
                        ELSE LastCascade(world, commands, cascade)
    /\ commands' = <<>>
    /\ stage' = "Last"
    /\ UNCHANGED <<ran, RefVars, delta, driverLog, guards>>

\* lib.rs queue_delete_system, in CoreStage::Last: one despawn per tagged entity
RECURSIVE DespawnCommands(_)
DespawnCommands(S) ==
    IF S = {} THEN <<>>
    ELSE LET e == CHOOSE x \in S : \A y \in S : x <= y
         IN <<Cmd("Despawn", e)>> \o DespawnCommands(S \ {e})

queue_delete_system_Nothing ==
    /\ ~panicked
    /\ stage = "Last"
    /\ "queue_delete_system" \notin ran
    /\ ran' = ran \cup {"queue_delete_system"}
    /\ UNCHANGED <<world, stage, commands, panicked, RefVars, SideVars>>
queue_delete_system ==
    /\ ~panicked
    /\ stage = "Last"
    /\ "queue_delete_system" \notin ran
    /\ commands' = commands \o DespawnCommands(world.tagged)
    /\ ran' = ran \cup {"queue_delete_system"}
    /\ UNCHANGED <<world, stage, panicked, RefVars, SideVars>>

\* The Last stage ends: its commands are applied and the next tick begins,
\* with a Time::delta() out of deltas
EndLast(deltas) ==
    /\ ~panicked
    /\ stage = "Last"
    /\ "queue_delete_system" \in ran
    /\ \A e \in Entity : driverLog[e].ticks < MaxTicks
    /\ LET r == ApplyCommands(world, commands)
       IN /\ world' = r.world
          /\ panicked' = r.panicked
    /\ commands' = <<>>
    /\ stage' = "Update"
    /\ ran' = {}
    /\ delta' \in deltas
    /\ cascade' = IF cascade = NoCascade THEN cascade ELSE [cascade EXCEPT !.swept = TRUE]
    /\ UNCHANGED <<RefVars, driverLog, guards>>

\* User code: commands.entity(e).insert(QueueDelete) from a system of Update
insert_QueueDelete(e) ==
    /\ ~panicked
    /\ stage = "Update"
    /\ e \in world.alive
    /\ Cmd("Insert", e) \notin Range(commands)
    /\ Len(commands) < MaxCommands
    /\ commands' = Append(commands, Cmd("Insert", e))
    /\ UNCHANGED <<world, stage, ran, panicked, RefVars, SideVars>>

\* --------------------------------------------------------- RefEntityServer
\* entry(id).or_insert(0)
OrInsert0(counts, id) == IF id \in DOMAIN counts THEN counts[id] ELSE 0

\* usize arithmetic. A count is kept as the representative of its residue
\* modulo 2^64 in a window around 0: a negative v stands for 2^64 + v, so a
\* wrapped 0 - 1 is -1 (usize::MAX). `x <= 0` on usize is `x == 0`.
UsizeLeZero_Never(v) == FALSE
UsizeLeZero(v) == v = 0

\* The loop of mark_unused_entities over the received messages.
\* checks: the build has overflow checks (debug), so 0 - 1 panics; without
\* them (release) it wraps.
RECURSIVE Drain(_, _, _, _)
Drain(ch, counts, frees, checks) ==
    IF ch = <<>>
    THEN [channel |-> ch, ref_counts |-> counts, potential_frees |-> frees,
          panicked |-> FALSE]
    ELSE LET m == Head(ch)
             entry == OrInsert0(counts, m.id)
         IN IF m.kind = "Increment"
            THEN Drain(Tail(ch), Insert(counts, m.id, entry + 1), frees, checks)
            ELSE IF entry = 0 /\ checks
            THEN [channel |-> Tail(ch), ref_counts |-> Insert(counts, m.id, 0),
                  potential_frees |-> frees, panicked |-> TRUE]
            ELSE IF UsizeLeZero(entry - 1)
            THEN Drain(Tail(ch), Remove(counts, m.id), Append(frees, m.id), checks)
            ELSE Drain(Tail(ch), Insert(counts, m.id, entry - 1), frees, checks)

\* ref_delete.rs mark_unused_entities: the drain phase
mark_unused_entities ==
    /\ MayRun("mark_unused_entities")
    /\ \E checks \in BOOLEAN :
         LET r == Drain(channel, ref_counts, mark_unused_assets, checks)
         IN /\ channel' = r.channel
            /\ ref_counts' = r.ref_counts
            /\ mark_unused_assets' = r.potential_frees
            /\ panicked' = r.panicked
    /\ ran' = ran \cup {"mark_unused_entities"}
    /\ UNCHANGED <<world, stage, commands, handles, balance, SideVars>>

\* The candidate is tagged when the table holds Some(0) for it and the entity
\* is in the registry
FreeCheck_NoCountCheck(counts, w, id) ==
    id \in w.alive
FreeCheck_AbsentIsZero(counts, w, id) ==
    /\ OrInsert0(counts, id) = 0
    /\ id \in w.alive
FreeCheck(counts, w, id) ==
    /\ Get(counts, id) = 0
    /\ id \in w.alive

\* potential_frees.drain(..): the Insert commands of the candidates that pass
RECURSIVE FreeCommands(_, _, _)
FreeCommands(frees, counts, w) ==
    IF frees = <<>> THEN <<>>
    ELSE (IF FreeCheck(counts, w, Head(frees))
          THEN <<Cmd("Insert", Head(frees))>> ELSE <<>>)
         \o FreeCommands(Tail(frees), counts, w)

\* ref_delete.rs free_unused_entities: the free-mark phase
free_unused_entities_KeepsPending ==
    /\ MayRun("free_unused_entities")
    /\ commands' = commands \o FreeCommands(mark_unused_assets, ref_counts, world)
    /\ ran' = ran \cup {"free_unused_entities"}
    /\ UNCHANGED <<world, stage, panicked, ref_counts, mark_unused_assets, HandleVars,
                   SideVars>>
free_unused_entities ==
    /\ MayRun("free_unused_entities")
    /\ commands' = commands \o FreeCommands(mark_unused_assets, ref_counts, world)
    /\ mark_unused_assets' = <<>>
    /\ ran' = ran \cup {"free_unused_entities"}
    /\ UNCHANGED <<world, stage, panicked, ref_counts, HandleVars, SideVars>>

RefSystems == {"mark_unused_entities", "free_unused_entities"}

\* ------------------------------------------------ the reference-count spec
EmptyWorld(alive) ==
    [alive |-> alive, tagged |-> {}, children |-> [e \in Entity |-> <<>>],
     timers |-> <<>>, frames |-> <<>>]
\* what a driver was given for an entity and what it has done to it since
NoLog == [arg |-> -1, cum |-> 0, fired |-> 0, ticks |-> 0, firedAt |-> {}]

InitCommon ==
    /\ stage = "Update"
    /\ ran = {}
    /\ commands = <<>>
    /\ panicked = FALSE
    /\ handles = [hv \in HandleValues |-> 0]
    /\ channel = <<>>
    /\ ref_counts = <<>>
    /\ mark_unused_assets = <<>>
    /\ balance = [id \in RefIds |-> 0]
    /\ cascade = NoCascade
    /\ delta = 0
    /\ driverLog = [e \in Entity |-> NoLog]
    /\ guards = {}

Init ==
    /\ InitCommon
    /\ world = EmptyWorld(Targets)

Next ==
    \/ \E e \in Targets : get_handle(e)
    \/ \E e \in Targets : new_weak(e)
    \/ Default
    \/ \E hv \in HandleValues : as_weak(hv)
    \/ \E hv \in HandleValues : clone_weak(hv)
    \/ \E hv \in HandleValues : clone(hv)
    \/ \E hv \in HandleValues : make_strong(hv)
    \/ \E hv \in HandleValues : drop(hv)
    \/ \E e \in Targets : insert_QueueDelete(e)
    \/ mark_unused_entities
    \/ free_unused_entities
    \/ EndUpdate(RefSystems)
    \/ queue_delete_system
    \/ EndLast({0})

Spec == Init /\ [][Next]_vars


\* ------------------------------------------------------- the cascade spec
\* EntityMut::queue_despawn_recursive: the cascade runs at once
queue_despawn_recursive(x) ==
    /\ ~panicked
    /\ stage = "Update"
    /\ x \in world.alive
    /\ LET r == queue_despawn_with_children_recursive(world, x)
       IN /\ world' = r.world
          /\ panicked' = r.panicked
          /\ cascade' = IF r.panicked THEN cascade ELSE CascadeOf("recursive", world, x)
    /\ UNCHANGED <<stage, ran, commands, RefVars, delta, driverLog, guards>>

\* EntityMut::queue_despawn_descendants: the cascade runs at once
queue_despawn_descendants(x) ==
    /\ ~panicked
    /\ stage = "Update"
    /\ x \in world.alive
    /\ LET r == queue_despawn_children(world, x)
       IN /\ world' = r.world
          /\ panicked' = r.panicked
          /\ cascade' = IF r.panicked THEN cascade ELSE CascadeOf("descendants", world, x)
    /\ UNCHANGED <<stage, ran, commands, RefVars, delta, driverLog, guards>>

\* A command of user code queued on an entity of the registry
Queue(c) ==
    /\ ~panicked
    /\ stage = "Update"
    /\ c.e \in world.alive
    /\ c \notin Range(commands)
    /\ Len(commands) < MaxCommands
    /\ commands' = Append(commands, c)
    /\ UNCHANGED <<world, stage, ran, panicked, RefVars, cascade, delta, guards>>

\* EntityCommands::queue_despawn_recursive: the QueueDespawnRecursive command
queue_despawn_recursive_command(x) ==
    /\ Queue(Cmd("QueueDespawnRecursive", x))
    /\ UNCHANGED driverLog

\* EntityCommands::queue_despawn_descendants: QueueDespawnChildrenRecursive
queue_despawn_descendants_command(x) ==
    /\ Queue(Cmd("QueueDespawnChildrenRecursive", x))
    /\ UNCHANGED driverLog

\* The hierarchies: every entity has at most one parent, of a smaller id
Forests == {p \in [Entity -> 0..(NumEntities - 1)] : \A e \in Entity : p[e] < e}
RECURSIVE Ascending(_)
Ascending(S) ==
    IF S = {} THEN <<>>
    ELSE LET e == CHOOSE x \in S : \A y \in S : x <= y
         IN <<e>> \o Ascending(S \ {e})
TreeWorld(p) ==
    [EmptyWorld(Entity) EXCEPT
        !.children = [e \in Entity |-> Ascending({c \in Entity : p[c] = e})]]

InitTree ==
    /\ InitCommon
    /\ \E p \in Forests : world = TreeWorld(p)

NextTree ==
    \/ \E x \in Entity : queue_despawn_recursive(x)
    \/ \E x \in Entity : queue_despawn_descendants(x)
    \/ \E x \in Entity : queue_despawn_recursive_command(x)
    \/ \E x \in Entity : queue_despawn_descendants_command(x)
    \/ \E e \in Entity : insert_QueueDelete(e)
    \/ EndUpdate({})
    \/ queue_delete_system
    \/ EndLast({0})

SpecTree == InitTree /\ [][NextTree]_vars

\* --------------------------------------------------------- the timer spec
\* Timer::tick(delta) of a non-repeating timer, then just_finished() is
\* times_finished > 0
TimerTick(t, d) ==
    IF t.finished THEN [t EXCEPT !.times_finished = 0]
    ELSE IF t.elapsed + d >= t.duration
    THEN [t EXCEPT !.elapsed = t.duration, !.finished = TRUE, !.times_finished = 1]
    ELSE [t EXCEPT !.elapsed = t.elapsed + d, !.times_finished = 0]
just_finished(t) == t.times_finished > 0

\* one Insert<QueueDelete> command per entity of S
RECURSIVE InsertCommands(_)
InsertCommands(S) ==
    IF S = {} THEN <<>>
    ELSE LET e == CHOOSE x \in S : \A y \in S : x <= y
         IN <<Cmd("Insert", e)>> \o InsertCommands(S \ {e})

\* lib.rs timer_delete_system
timer_delete_system ==
    /\ MayRun("timer_delete_system")
    /\ LET ticked == [e \in DOMAIN world.timers |->
                         [world.timers[e] EXCEPT !.timer = TimerTick(@, delta)]]
           done == {e \in DOMAIN ticked : just_finished(ticked[e].timer)}
       IN /\ world' = [world EXCEPT !.timers = ticked]
          /\ commands' = commands \o InsertCommands(done)
          /\ driverLog' = [e \in Entity |->
                IF e \in DOMAIN ticked
                THEN [driverLog[e] EXCEPT !.cum = @ + delta,
                                          !.fired = @ + (IF e \in done THEN 1 ELSE 0)]
                ELSE driverLog[e]]
    /\ ran' = ran \cup {"timer_delete_system"}
    /\ UNCHANGED <<stage, panicked, RefVars, cascade, delta, guards>>

\* lib.rs timer_start_fn: the TimerDelete components added since its last run
timer_start_fn ==
    /\ MayRun("timer_start_fn")
    /\ world' = [world EXCEPT !.timers = [e \in DOMAIN world.timers |->
            LET timer == world.timers[e]
            IN IF timer.added
               THEN [timer EXCEPT !.timer.duration = timer.duration, !.added = FALSE]
               ELSE timer]]
    /\ ran' = ran \cup {"timer_start_fn"}
    /\ UNCHANGED <<stage, commands, panicked, RefVars, SideVars>>

TimerSystems == {"timer_delete_system", "timer_start_fn"}

\* User code: commands.entity(e).insert(TimerDelete::new(d)), once per entity
insert_TimerDelete(e, d) ==
    /\ driverLog[e].arg = -1
    /\ Queue(CmdArg("InsertTimerDelete", e, d))
    /\ driverLog' = [driverLog EXCEPT ![e].arg = d]

InitTimer ==
    /\ InitCommon
    /\ world = EmptyWorld({1, 2})

NextTimer ==
    \/ \E e \in Entity, d \in 1..MaxDuration : insert_TimerDelete(e, d)
    \/ timer_delete_system
    \/ timer_start_fn
    \/ EndUpdate(TimerSystems)
    \/ queue_delete_system
    \/ EndLast(0..MaxDelta)

SpecTimer == InitTimer /\ [][NextTimer]_vars

\* --------------------------------------------------- the frame-count spec
\* u64 arithmetic of FrameCountDelete, kept like the usize counts: a negative
\* v stands for 2^64 + v, and `frames.0 <= 0` is `frames.0 == 0`
U64LeZero(v) == v = 0

\* lib.rs frame_count_delete_system. checks: the build has overflow checks,
\* so `frames.0 -= 1` on 0 panics; without them it wraps to 2^64 - 1
frame_count_delete_system ==
    /\ MayRun("frame_count_delete_system")
    /\ \E checks \in BOOLEAN :
         LET overflow == {e \in DOMAIN world.frames : world.frames[e] = 0}
             stepped == [e \in DOMAIN world.frames |->
                            IF checks /\ e \in overflow THEN world.frames[e]
                            ELSE world.frames[e] - 1]
             done == {e \in DOMAIN stepped :
                         ~(checks /\ e \in overflow) /\ U64LeZero(stepped[e])}
         IN /\ world' = [world EXCEPT !.frames = stepped]
            /\ panicked' = (checks /\ overflow # {})
            /\ commands' = commands \o InsertCommands(done)
            /\ driverLog' = [e \in Entity |->
                  IF e \in DOMAIN stepped
                  THEN [driverLog[e] EXCEPT
                          !.ticks = @ + 1,
                          !.firedAt = IF e \in done THEN @ \cup {driverLog[e].ticks + 1}
                                      ELSE @]
                  ELSE driverLog[e]]
    /\ ran' = ran \cup {"frame_count_delete_system"}
    /\ UNCHANGED <<stage, RefVars, cascade, delta, guards>>

\* User code: commands.entity(e).insert(FrameCountDelete(k)), once per entity
insert_FrameCountDelete(e, k) ==
    /\ driverLog[e].arg = -1
    /\ Queue(CmdArg("InsertFrameCountDelete", e, k))
    /\ driverLog' = [driverLog EXCEPT ![e].arg = k]

InitFrame ==
    /\ InitCommon
    /\ world = EmptyWorld({1, 2})

NextFrame ==
    \/ \E e \in Entity, k \in 0..MaxFrames : insert_FrameCountDelete(e, k)
    \/ frame_count_delete_system
    \/ EndUpdate({"frame_count_delete_system"})
    \/ queue_delete_system
    \/ EndLast({0})

SpecFrame == InitFrame /\ [][NextFrame]_vars

\* ------------------------------------------------- the whole-plugin spec
\* BevyQueueDeletePlugin with the ref_delete feature: every system the two
\* plugins add to the Update stage
UpdateSystems == TimerSystems \cup {"frame_count_delete_system"} \cup RefSystems

\* entity 1 with the child 2
InitPlugin ==
    /\ InitCommon
    /\ world = [EmptyWorld({1, 2}) EXCEPT !.children[1] = <<2>>]

\* User code of a tick. Here it runs before the systems of the plugin, sends
\* one message per tick, times the parent and counts frames for the child.
UserCode == ran = {}
user_get_handle(e) == UserCode /\ Held = 0 /\ channel = <<>> /\ get_handle(e)
user_drop(hv) == UserCode /\ channel = <<>> /\ drop(hv)
user_insert_TimerDelete(e, d) == UserCode /\ insert_TimerDelete(e, d)
user_insert_FrameCountDelete(e, k) == UserCode /\ insert_FrameCountDelete(e, k)
user_queue_despawn_recursive(x) == UserCode /\ queue_despawn_recursive_command(x)
user_queue_despawn_descendants(x) == UserCode /\ queue_despawn_descendants_command(x)
user_insert_QueueDelete(e) == UserCode /\ insert_QueueDelete(e)

NextPlugin ==
    \/ \E e \in Targets : user_get_handle(e)
    \/ \E hv \in HandleValues : user_drop(hv)
    \/ \E e \in Targets, d \in 1..MaxDuration : user_insert_TimerDelete(e, d)
    \/ \E e \in Entity \ Targets, k \in 0..MaxFrames : user_insert_FrameCountDelete(e, k)
    \/ \E x \in Entity : user_queue_despawn_recursive(x)
    \/ \E x \in Entity : user_queue_despawn_descendants(x)
    \/ \E e \in Entity : user_insert_QueueDelete(e)
    \/ timer_delete_system
    \/ timer_start_fn
    \/ frame_count_delete_system
    \/ mark_unused_entities
    \/ free_unused_entities
    \/ EndUpdate(UpdateSystems)
    \/ queue_delete_system
    \/ EndLast(0..MaxDelta)

SpecPlugin == InitPlugin /\ [][NextPlugin]_vars

\* ------------------------------------------------------ the teardown spec
\* The App is dropped between two ticks, and with it the World, the
\* RefEntityServer and the receiver of its channel with the messages in it;
\* the handles user code holds live on
teardown ==
    /\ ~panicked
    /\ stage = "Update"
    /\ ran = {}
    /\ stage' = "Exit"
    /\ world' = EmptyWorld({})
    /\ commands' = <<>>
    /\ channel' = <<>>
    /\ ref_counts' = <<>>
    /\ mark_unused_assets' = <<>>
    /\ UNCHANGED <<ran, panicked, handles, balance, SideVars>>

NextTeardown ==
    \/ \E e \in Targets : get_handle(e)
    \/ \E e \in Targets : new_weak(e)
    \/ \E hv \in HandleValues : drop(hv)
    \/ mark_unused_entities
    \/ free_unused_entities
    \/ EndUpdate(RefSystems)
    \/ queue_delete_system
    \/ EndLast({0})
    \/ teardown

SpecTeardown == Init /\ [][NextTeardown]_vars

\* ---------------------------------------------------------- the lock spec
\* The two reference systems share no Bevy resource mutably, so the parallel
\* executor runs them on two threads of the task pool. Here each of them is
\* one step per blocking lock acquisition; a guard is held until the system
\* returns.
FreeMutexGuard == "free_unused_entities holds mark_unused_assets.lock()"
FreeReadGuard == "free_unused_entities holds ref_counts.read()"
MarkWriteGuard == "mark_unused_entities holds ref_counts.write()"

LockVars == <<world, stage, ran, commands, panicked, RefVars, cascade, delta,
              driverLog>>

\* ref_delete.rs:47  let mut potential_frees = self.mark_unused_assets.lock();
\* (mark takes this mutex only inside its last step, so it is free between
\* steps unless free_unused_entities holds it)
free_lock_mark_unused_assets ==
    /\ MayRun("free_unused_entities")
    /\ FreeMutexGuard \notin guards
    /\ guards' = guards \cup {FreeMutexGuard}
    /\ UNCHANGED LockVars

\* ref_delete.rs:48-49  if !potential_frees.is_empty() { self.ref_counts.read()
free_read_ref_counts ==
    /\ MayRun("free_unused_entities")
    /\ FreeMutexGuard \in guards
    /\ FreeReadGuard \notin guards
    /\ mark_unused_assets # <<>>
    /\ MarkWriteGuard \notin guards
    /\ guards' = guards \cup {FreeReadGuard}
    /\ UNCHANGED LockVars

\* ref_delete.rs:50-58  the loop over the candidates, then both guards drop
free_drain_potential_frees ==
    /\ MayRun("free_unused_entities")
    /\ FreeMutexGuard \in guards
    /\ mark_unused_assets = <<>> \/ FreeReadGuard \in guards
    /\ commands' = commands \o FreeCommands(mark_unused_assets, ref_counts, world)
    /\ mark_unused_assets' = <<>>
    /\ ran' = ran \cup {"free_unused_entities"}
    /\ guards' = guards \ {FreeMutexGuard, FreeReadGuard}
    /\ UNCHANGED <<world, stage, panicked, ref_counts, HandleVars, cascade, delta,
                   driverLog>>

\* ref_delete.rs:62  let mut ref_counts = self.ref_counts.write();
mark_write_ref_counts ==
    /\ MayRun("mark_unused_entities")
    /\ MarkWriteGuard \notin guards
    /\ FreeReadGuard \notin guards
    /\ guards' = guards \cup {MarkWriteGuard}
    /\ UNCHANGED LockVars

\* ref_delete.rs:77  potential_frees.get_or_insert_with(|| ...lock()): the
\* loop takes the mutex at the first count that reaches zero
NeedsMutex(r) == r.potential_frees # mark_unused_assets

\* ref_delete.rs:63-84  the loop over the channel, then the guards drop
mark_try_recv_loop ==
    /\ MayRun("mark_unused_entities")
    /\ MarkWriteGuard \in guards
    /\ \E checks \in BOOLEAN :
         LET r == Drain(channel, ref_counts, mark_unused_assets, checks)
         IN /\ NeedsMutex(r) => FreeMutexGuard \notin guards
            /\ channel' = r.channel
            /\ ref_counts' = r.ref_counts
            /\ mark_unused_assets' = r.potential_frees
            /\ panicked' = r.panicked
    /\ ran' = ran \cup {"mark_unused_entities"}
    /\ guards' = guards \ {MarkWriteGuard}
    /\ UNCHANGED <<world, stage, commands, handles, balance, cascade, delta,
                   driverLog>>

NextLocks ==
    \/ \E e \in Targets : get_handle(e)
    \/ \E e \in Targets : new_weak(e)
    \/ \E hv \in HandleValues : clone(hv)
    \/ \E hv \in HandleValues : make_strong(hv)
    \/ \E hv \in HandleValues : drop(hv)
    \/ free_lock_mark_unused_assets
    \/ free_read_ref_counts
    \/ free_drain_potential_frees
    \/ mark_write_ref_counts
    \/ mark_try_recv_loop
    \/ EndUpdate(RefSystems)
    \/ queue_delete_system
    \/ EndLast({0})

SpecLocks == Init /\ [][NextLocks]_vars

\* ================================================================== claims
\* the table's count of id, a missing entry counting as 0
Count(id) == OrInsert0(ref_counts, id)
\* the kinds of the messages for id in the channel, in order
ChannelFor(id) ==
    LET RECURSIVE Kinds(_)
        Kinds(ch) == IF ch = <<>> THEN <<>>
                     ELSE (IF Head(ch).id = id THEN <<Head(ch).kind>> ELSE <<>>)
                          \o Kinds(Tail(ch))
    IN Kinds(channel)
\* the commands the step queued
NewCommands == SubSeq(commands', Len(commands) + 1, Len(commands'))
MarkStep == "mark_unused_entities" \notin ran /\ "mark_unused_entities" \in ran'
FreeStep == "free_unused_entities" \notin ran /\ "free_unused_entities" \in ran'

\* C1: when the free-mark pass runs after the drain of the same tick, it
\* attaches QueueDelete to an existing entity iff the entity is a pending
\* candidate whose count is zero (net count <= 0, no Increment since).
C1_FreeMarkTagsZeroCount ==
    [][(FreeStep /\ "mark_unused_entities" \in ran) =>
          \A id \in world.alive :
              (Cmd("Insert", id) \in Range(NewCommands))
                  <=> (id \in Range(mark_unused_assets) /\ Count(id) = 0)]_vars

\* C2: a drain that finds Decrement(O) then Increment(O) for an O of count 1
\* leaves count[O] = 1 with O a pending candidate, and the free-mark pass
\* attaches nothing to a candidate whose count is 1 or more.
C2_IncrementRetractsFree ==
    [][/\ MarkStep =>
            \A id \in RefIds :
                (Count(id) = 1 /\ ChannelFor(id) = <<"Decrement", "Increment">>)
                    => /\ Get(ref_counts', id) = 1
                       /\ id \in Range(mark_unused_assets')
       /\ FreeStep =>
            \A id \in Range(mark_unused_assets) :
                Count(id) >= 1 => Cmd("Insert", id) \notin Range(NewCommands)]_vars

\* C2 witness: the drain has run, O is a pending candidate, its count is 1
\* again and the entity exists: the free-mark pass is about to see it.
C2_Witness ==
    /\ stage = "Update"
    /\ ran = {"mark_unused_entities"}
    /\ 1 \in Range(mark_unused_assets)
    /\ Get(ref_counts, 1) = 1
    /\ StrongCount(1) = 1
    /\ 1 \in world.alive

\* C3: a step in which a Strong handle for id appears sends exactly
\* Increment(id), a step in which one disappears sends exactly Decrement(id),
\* a step that does neither sends nothing; so Increments sent minus Decrements
\* sent is the number of live Strong handles, never negative.
C3_OneIncrementOneDecrement ==
    /\ [](\A id \in RefIds : balance[id] = StrongCount(id) /\ balance[id] >= 0)
    /\ [][\A id \in RefIds :
            /\ StrongCount(id)' = StrongCount(id) + 1
                   => channel' = Append(channel, Increment(id))
            /\ StrongCount(id)' = StrongCount(id) - 1
                   => channel' = Append(channel, Decrement(id))
            /\ StrongCount(id)' = StrongCount(id) => balance'[id] = balance[id]]_vars

\* C3 witness: a Strong handle was created and dropped, both messages in flight
C3_Witness ==
    /\ channel = <<Increment(1), Decrement(1)>>
    /\ StrongCount(1) = 0
    /\ balance[1] = 0

\* C4: a step that creates or drops only Weak handles changes neither the
\* channel nor ref_counts nor the pending set, and an id that only Weak handles
\* target (no Strong handle, no message in flight) has no entry in ref_counts.
WeakOnlyStep ==
    /\ handles' # handles
    /\ \A id \in RefIds : StrongCount(id)' = StrongCount(id)
C4_WeakHandlesLeaveTable ==
    /\ [](\A id \in RefIds :
            (StrongCount(id) = 0 /\ ChannelFor(id) = <<>>) => id \notin DOMAIN ref_counts)
    /\ [][WeakOnlyStep =>
            UNCHANGED <<channel, balance, ref_counts, mark_unused_assets>>]_vars

\* C4 witness: Weak handles for two ids are held, a drain has run, the table is empty
C4_Witness ==
    /\ handles[WeakHandle(1)] = 1
    /\ handles[WeakHandle(DefaultEntity)] = 1
    /\ "mark_unused_entities" \in ran
    /\ ref_counts = <<>>

\* C5: the step that turns a Weak handle for e Strong sends exactly
\* Increment(e); a step that leaves the handles as they are (make_strong on a
\* Strong handle) sends nothing; once the channel is drained the count of e is
\* the number of its Strong handles.
C5_MakeStrongOnce ==
    /\ [](channel = <<>> => \A id \in RefIds : Count(id) = StrongCount(id))
    /\ [][/\ \A e \in RefIds :
               (/\ handles'[WeakHandle(e)] = handles[WeakHandle(e)] - 1
                /\ handles'[StrongHandle(e)] = handles[StrongHandle(e)] + 1)
                   => channel' = Append(channel, Increment(e))
          /\ handles' = handles
               => /\ balance' = balance
                  /\ channel' = channel \/ MarkStep]_vars

\* C5 witness: a Default handle was made Strong (the only way to a Strong
\* handle for that id) and the drain counted it once
C5_Witness ==
    /\ handles[StrongHandle(DefaultEntity)] = 1
    /\ Held = 1
    /\ channel = <<>>
    /\ Get(ref_counts, DefaultEntity) = 1

\* the step ran the cascade fn on cascade'.root and it came back
CascadeStep(fn) ==
    /\ cascade' # cascade
    /\ cascade'.fn = fn
    /\ ~cascade'.swept
    /\ ~panicked'
\* the cascade was the only thing the step did to the world: the direct call,
\* or a stage end whose queue held one command
CascadeAlone == stage' = stage \/ Len(commands) = 1
\* the hierarchy below X is a tree of entities of the registry
TreeOfEntities(X) == X \in world.alive /\ Subtree(world, X) \subseteq world.alive

\* C6: on a tree of entities, queue_despawn_with_children_recursive(X) comes
\* back with QueueDelete on X and on every transitive descendant of X, and
\* the tags of all other entities, like the rest of the world, as they were.
C6_RecursiveTagsSubtree ==
    /\ [](\A X \in Entity : TreeOfEntities(X) =>
            LET r == queue_despawn_with_children_recursive(world, X)
            IN /\ ~r.panicked
               /\ r.world.tagged = world.tagged \cup Subtree(world, X)
               /\ r.world = [world EXCEPT !.tagged = r.world.tagged])
    /\ [][CascadeStep("recursive") =>
            /\ cascade'.subtree \subseteq world'.tagged
            /\ CascadeAlone =>
                 world' = [world EXCEPT !.tagged = @ \cup cascade'.subtree]]_vars

\* C6 witness: 1 has the children 2 and 3, 2 has the child 4; the cascade on 1
\* has run and the four carry the tag
C6_Witness ==
    /\ world.children[1] = <<2, 3>>
    /\ world.children[2] = <<4>>
    /\ cascade.fn = "recursive" /\ cascade.root = 1 /\ ~cascade.swept
    /\ cascade.subtree = {1, 2, 3, 4}
    /\ world.tagged = {1, 2, 3, 4}
    /\ {1, 2, 3, 4} \subseteq world.alive

\* C7: queue_despawn_children(X) attaches QueueDelete to every transitive
\* descendant of X and leaves X as it was: X carries the tag after the call
\* iff it carried it before.
C7_DescendantsOnly ==
    [][(CascadeStep("descendants") /\ CascadeAlone) =>
          /\ (cascade'.subtree \ {cascade'.root}) \subseteq world'.tagged
          /\ cascade'.root \in world'.tagged <=> cascade'.root \in world.tagged]_vars

\* C8: once queue_delete_system has run after the cascade on R, no entity of
\* R's subtree is in the registry; the run takes out of the registry no entity
\* outside the subtree that did not carry the tag.
C8_SubtreeGoneOthersStay ==
    /\ []((cascade.fn = "recursive" /\ cascade.swept)
             => cascade.subtree \cap world.alive = {})
    /\ [][(cascade.fn = "recursive" /\ ~cascade.swept /\ cascade'.swept) =>
            \A e \in world.alive \ cascade.subtree :
                e \notin world.tagged => e \in world'.alive]_vars

\* C8 witness: the cascade ran on 2, whose subtree was {2, 3, 4}, the tick
\* ended, and of the four entities only 1 is left
C8_Witness ==
    /\ cascade.fn = "recursive" /\ cascade.root = 2 /\ cascade.swept
    /\ cascade.subtree = {2, 3, 4}
    /\ world.alive = {1}
    /\ stage = "Update"

\* C9: for a TimerDelete of duration D > 0, whichever of timer_start_fn and
\* timer_delete_system runs first in a tick: while the delta time summed over
\* the driver's runs on the entity is below D the driver has attached no
\* QueueDelete, and once the sum has reached D it has attached exactly one.
C9_TimerFiresAtDuration ==
    \A e \in Entity :
        LET D == driverLog[e].arg
        IN D > 0 =>
             /\ driverLog[e].cum < D => driverLog[e].fired = 0
             /\ driverLog[e].cum >= D => driverLog[e].fired = 1

\* the tick after attachment at which a FrameCountDelete of count K is due: a
\* count of 0 has nothing left to count, so the first run of the driver
DueTick(K) == IF K = 0 THEN 1 ELSE K

\* C10: for a FrameCountDelete attached with count K, the driver attaches
\* QueueDelete at the Kth run of frame_count_delete_system on the entity after
\* the attachment: at no other run, and once that run is over the tag is
\* attached.
C10_FrameCountFiresAtK ==
    \A e \in Entity :
        LET K == driverLog[e].arg
        IN K >= 0 =>
             /\ driverLog[e].firedAt \subseteq {DueTick(K)}
             /\ driverLog[e].ticks >= DueTick(K) => DueTick(K) \in driverLog[e].firedAt

\* C11: the decrement of a FrameCountDelete is clamped at 0, for every count
\* K >= 0 it was attached with: the run of the driver never panics on the
\* subtraction, the u64 counter never wraps to 2^64 - 1 (a negative
\* representative), and a counter that is 0 when the driver runs gets its
\* entity tagged.
C11_FrameCountClamped ==
    /\ ~panicked
    /\ \A e \in DOMAIN world.frames : world.frames[e] >= 0
    /\ \A e \in Entity :
         (driverLog[e].arg = 0 /\ driverLog[e].ticks >= 1) => driverLog[e].firedAt # {}

\* the steps of the schedule
QueueDeleteStep == "queue_delete_system" \notin ran /\ "queue_delete_system" \in ran'
EndUpdateStep == stage = "Update" /\ stage' = "Last"
EndLastStep == stage = "Last" /\ stage' = "Update"
\* the entities a driver of the plugin has tagged in an earlier tick
TaggedEarlier ==
    {e \in Entity : /\ stage = "Update"
                    /\ \/ "timer_delete_system" \notin ran /\ driverLog[e].fired >= 1
                       \/ "frame_count_delete_system" \notin ran
                             /\ driverLog[e].firedAt # {}}
       \cup (IF cascade.swept THEN cascade.subtree \ {cascade.root} ELSE {})
       \cup (IF cascade.swept /\ cascade.fn = "recursive" THEN {cascade.root} ELSE {})

C13_DrainBeforeFreeMark ==
    [][FreeStep => "mark_unused_entities" \in ran]_vars

\* C14: a QueueDelete queued for an entity, once or several times in a tick,
\* is on the entity when the Update stage ends; a run of queue_delete_system
\* queues one despawn for each entity that carries QueueDelete and none for
\* any other entity; when its stage ends exactly the tagged entities have
\* left the registry, so an untagged child of a tagged parent is still there.
C14_DespawnsExactlyTheTagged ==
    [][/\ QueueDeleteStep =>
            /\ Len(NewCommands) = Cardinality(world.tagged)
            /\ \A e \in Entity :
                 (Cmd("Despawn", e) \in Range(NewCommands)) <=> (e \in world.tagged)
       /\ (EndUpdateStep /\ ~panicked') =>
            /\ world'.alive = world.alive
            /\ \A e \in Entity :
                 Cmd("Insert", e) \in Range(commands) => e \in world'.tagged
       /\ EndLastStep => world'.alive = world.alive \ world.tagged]_vars

\* C14 witness: in one tick the frame-count driver and a recursive cascade
\* have tagged entity 2; its parent 1 carries no tag; queue_delete_system has
\* run and queued one despawn, for 2
C14_Witness ==
    /\ stage = "Last" /\ "queue_delete_system" \in ran
    /\ world.children[1] = <<2>>
    /\ world.alive = {1, 2} /\ world.tagged = {2}
    /\ driverLog[2].firedAt # {}
    /\ cascade = [fn |-> "recursive", root |-> 2, subtree |-> {2}, swept |-> FALSE]
    /\ commands = <<Cmd("Despawn", 2)>>

\* C15: a Strong handle dropped when the RefEntityServer and the receiver of
\* its channel are gone, so that its Decrement cannot be delivered, is a
\* fault: the step that drops it panics.
C15_DropAfterTeardownPanics ==
    [][(~Connected /\ \E e \in RefIds : StrongCount(e)' < StrongCount(e))
          => panicked']_vars

\* C16: the free-mark pass queues no QueueDelete for a candidate whose entity
\* is no longer in the registry, whatever the table holds for it, and does
\* not fail; after the pass the pending set is empty, whether or not a
\* candidate was tagged.
C16_DeadCandidateDropped ==
    /\ [](\A id \in RefIds \ world.alive :
            \A counts \in {<<>>, Insert(<<>>, id, 0), Insert(<<>>, id, 1)} :
                FreeCommands(<<id>>, counts, world) = <<>>)
    /\ [][FreeStep =>
            /\ mark_unused_assets' = <<>>
            /\ ~panicked'
            /\ \A id \in Range(mark_unused_assets) \ world.alive :
                   Cmd("Insert", id) \notin Range(NewCommands)]_vars

\* C16 witness: entity 1 has left the registry and the Strong handles on it
\* are gone; the drain and then the free-mark pass have run in this tick, the
\* pending set is empty and no command is queued
C16_Witness ==
    /\ 1 \notin world.alive
    /\ RefSystems \subseteq ran
    /\ StrongCount(1) = 0 /\ balance[1] = 0
    /\ handles[WeakHandle(1)] = 1
    /\ channel = <<>> /\ ref_counts = <<>>
    /\ mark_unused_assets = <<>>
    /\ commands = <<>>

\* how many of the messages for id in the channel are of kind k
Sent(k, id) == Cardinality({i \in DOMAIN ChannelFor(id) : ChannelFor(id)[i] = k})

\* C17: every entry of ref_counts holds a count >= 1, so a count of zero is
\* the absence of the entry. A drain that returns creates an entry only for an
\* id it received an Increment for, and when the last message for an id is
\* the Decrement that brings its count to 0 the entry is gone after the drain
\* and the id is in the pending set.
C17_ZeroIsAbsence ==
    /\ [](\A id \in DOMAIN ref_counts : ref_counts[id] >= 1)
    /\ [][(MarkStep /\ ~panicked') =>
            \A id \in RefIds :
                /\ (id \notin DOMAIN ref_counts /\ id \in DOMAIN ref_counts')
                      => Sent("Increment", id) >= 1
                /\ (/\ ChannelFor(id) # <<>>
                    /\ ChannelFor(id)[Len(ChannelFor(id))] = "Decrement"
                    /\ Count(id) + Sent("Increment", id) - Sent("Decrement", id) = 0)
                      => /\ id \notin DOMAIN ref_counts'
                         /\ id \in Range(mark_unused_assets')]_vars

\* C17 witness: a drain has counted the Strong handle on the default entity
\* and taken the last one on entity 1 away: one entry, of count 1, and 1 pending
C17_Witness ==
    /\ "mark_unused_entities" \in ran
    /\ channel = <<>>
    /\ DOMAIN ref_counts = {DefaultEntity} /\ ref_counts[DefaultEntity] = 1
    /\ mark_unused_assets = <<1>>

\* C18: when mark_unused_entities and free_unused_entities run concurrently in
\* one tick, both complete: no interleaving of their acquisitions of the
\* ref_counts read/write lock and of the mark_unused_assets mutex reaches a
\* state where free_unused_entities holds the mutex and waits for the read
\* lock while mark_unused_entities holds the write lock and waits for the
\* mutex.
EachWaitsForever ==
    /\ FreeMutexGuard \in guards
    /\ FreeReadGuard \notin guards
    /\ mark_unused_assets # <<>>
    /\ MarkWriteGuard \in guards
    /\ \A checks \in BOOLEAN :
         NeedsMutex(Drain(channel, ref_counts, mark_unused_assets, checks))

C18_BothSystemsComplete == ~EachWaitsForever

\* C19: whatever the interleaving of get_handle, clone, make_strong and drop
\* with the steps of the two reference systems, in either order of the systems
\* and over any number of ticks, the free-mark pass queues no QueueDelete for
\* an entity that a Strong handle targets at that moment.
C19_NoTagUnderLiveStrongHandle ==
    [][FreeStep =>
          \A id \in RefIds :
              StrongCount(id) >= 1 => Cmd("Insert", id) \notin Range(NewCommands)]_vars

\* C19 witness: free_unused_entities holds both guards, so it is in its loop
\* over the candidates; entity 1 is a candidate, exists, and has a live Strong
\* handle whose Increment the drain has not received yet
C19_Witness ==
    /\ {FreeMutexGuard, FreeReadGuard} \subseteq guards
    /\ 1 \in Range(mark_unused_assets)
    /\ 1 \in world.alive
    /\ StrongCount(1) >= 1
    /\ Increment(1) \in Range(channel)
    /\ 1 \notin DOMAIN ref_counts

\* the count of id after the first n messages for id in the channel are applied
CountAfter(id, n) ==
    LET ks == SubSeq(ChannelFor(id), 1, n)
    IN Count(id)
         + Cardinality({i \in DOMAIN ks : ks[i] = "Increment"})
         - Cardinality({i \in DOMAIN ks : ks[i] = "Decrement"})

\* C20: with the one RefEntityServer, a drain applies every message in the
\* channel exactly once (the channel is empty after it and each count has
\* moved by the Increments minus the Decrements received), no count goes below
\* 0 at any point of the drain (no underflow: no panic, no wrapped count), and
\* after the drain the count of every id is the number of live Strong handles
\* that target it.
C20_EveryMessageCountedOnce ==
    [][MarkStep =>
          /\ ~panicked'
          /\ channel' = <<>>
          /\ \A id \in RefIds :
                /\ \A n \in 0..Len(ChannelFor(id)) : CountAfter(id, n) >= 0
                /\ Count(id)' = CountAfter(id, Len(ChannelFor(id)))
                /\ Count(id)' = StrongCount(id)']_vars

\* C20 witness: a drain has returned; over the run it applied a Decrement that
\* brought entity 1 to zero (1 is a pending candidate) and Increments for both
\* ids, and each count is the one live Strong handle of its id
C20_Witness ==
    /\ "mark_unused_entities" \in ran
    /\ channel = <<>>
    /\ 1 \in Range(mark_unused_assets)
    /\ \A id \in RefIds : Count(id) = 1 /\ StrongCount(id) = 1
====
